---- MODULE Spec2Model ----
(***************************************************************************)
(* Digital halftoning with space filling curves.                           *)
(*                                                                         *)
(* Two state machines over one set of variables:                           *)
(*   Spec       one call of halftoning(image_in, curve_type, cluster_size, *)
(*              distribution) of digital_halftoning.py, stepped through    *)
(*              its statements;                                            *)
(*   SpecCurve  one call of space_filling_curve(curve_type, order) of      *)
(*              space_filling_curves.py, one list element per step.        *)
(*                                                                         *)
(* A point is <<x, y>>; image_in[y, x] of the source is image_in[<<x,y>>]. *)
(***************************************************************************)
EXTENDS Integers, Sequences, FiniteSets

VARIABLES
    \* ---- halftoning(): arguments
    image_in, width, height, curve_type, cluster_size, distribution,
    \* which scalar promotion rule the installed NumPy applies to
    \* "python int + uint8 scalar": "legacy" (value based, NumPy 1.x: int64)
    \* or "nep50" (NumPy >= 2: the uint8 of the array element)
    promotion,
    \* ---- halftoning(): locals
    pc, halftone, curve, clusters, ci, cluster, intensity_accumulator,
    raised,
    \* ---- halftoning(): log of the statements executed
    accumulated,   \* accumulator value when the accumulate pass of the
                   \* current cluster ended
    writes,        \* values assigned to halftone[y, x] by the emit pass of
                   \* the current cluster, in order
    written,       \* per pixel, how many times halftone[y, x] was assigned
    \* ---- space_filling_curve(): arguments and locals
    sfc_pc, sfc_type, sfc_order, sfc_i, sfc

hvars == <<image_in, width, height, curve_type, cluster_size, distribution,
           promotion, pc, halftone, curve, clusters, ci, cluster,
           intensity_accumulator, raised, accumulated, writes, written>>
cvars == <<sfc_pc, sfc_type, sfc_order, sfc_i, sfc>>
vars == <<hvars, cvars>>

(***************************************************************************)
(* Bounds of the model.                                                    *)
(***************************************************************************)
MaxWidth == 2          \* small images: every content over Intensities
MaxHeight == 2
MaxPixels == 4
MaxClusterSize == 3
MaxWideWidth == 4      \* wide images: uniform and ramp contents, Hilbert
MaxWideHeight == 3
MaxWideClusterSize == 5
MaxOrder == 4          \* space_filling_curve(): orders 0..MaxOrder
MaxStubPoints == 100   \* ... and at most this many points for the stubs

(***************************************************************************)
(* Program constants.                                                      *)
(***************************************************************************)
Threshold == 255
Ink == 255
Paper == 0
Uint8Modulus == 256

Intensities == {0, 199, 255}
CurveTypes == {"hilbert", "peano", "sierpinski"}
Distributions == {"standard", "ordered", "random"}
ClusterSizes == (-1)..MaxClusterSize

Pixels(w, h) == (0..(w - 1)) \X (0..(h - 1))

Max(a, b) == IF a >= b THEN a ELSE b

RECURSIVE Pow(_, _)
Pow(b, e) == IF e = 0 THEN 1 ELSE b * Pow(b, e - 1)

Range(s) == {s[k] : k \in 1..Len(s)}

(***************************************************************************)
(* space_filling_curves.py                                                 *)
(***************************************************************************)
first_order_coordinates == <<(<<0, 0>>), (<<0, 1>>), (<<1, 1>>), (<<1, 0>>)>>

\* Quadrant 3 shifted without the rotation.
HilbertStepNoRotate(p, quadrant, shift) ==
    CASE quadrant = 0 -> <<p[2], p[1]>>
      [] quadrant = 1 -> <<p[1], p[2] + shift>>
      [] quadrant = 2 -> <<p[1] + shift, p[2] + shift>>
      [] quadrant = 3 -> <<p[1] + shift, p[2]>>

\* One iteration of the loop of hilbert(), i already shifted:
\* the four branches on quadrant.
HilbertStep(p, quadrant, shift) ==
    CASE quadrant = 0 -> <<p[2], p[1]>>
      [] quadrant = 1 -> <<p[1], p[2] + shift>>
      [] quadrant = 2 -> <<p[1] + shift, p[2] + shift>>
      [] quadrant = 3 -> <<2 * shift - 1 - p[2], shift - 1 - p[1]>>

\* for j in range(1, order): i = i >> 2; shift = 2**j; quadrant = i & 3; ...
RECURSIVE HilbertLoop(_, _, _, _)
HilbertLoop(i, j, order, p) ==
    IF j >= order THEN p
    ELSE LET i2 == i \div 4
         IN  HilbertLoop(i2, j + 1, order, HilbertStep(p, i2 % 4, Pow(2, j)))

hilbert(i, order) ==
    HilbertLoop(i, 1, order, first_order_coordinates[(i % 4) + 1])

peano(i, order) == <<0, 0>>

sierpinski(i, order) == <<0, 0>>

Base(ct) ==
    CASE ct = "hilbert" -> 2
      [] ct = "peano" -> 3
      [] ct = "sierpinski" -> 4

CurvePoint(ct, i, order) ==
    CASE ct = "hilbert" -> hilbert(i, order)
      [] ct = "peano" -> peano(i, order)
      [] ct = "sierpinski" -> sierpinski(i, order)

\* n = base**order; [f(i, order) for i in range(n * n)]
space_filling_curve(ct, order) ==
    LET n == Pow(Base(ct), order)
    IN  [k \in 1..(n * n) |-> CurvePoint(ct, k - 1, order)]

(***************************************************************************)
(* digital_halftoning.py: order()                                          *)
(***************************************************************************)
\* The smallest o >= 0 with b^o >= m: np.ceil(np.log(m) / np.log(b)), which
\* the floating point evaluation gives exactly for the sizes modelled.
RECURSIVE CeilLogFrom(_, _, _)
CeilLogFrom(b, m, o) == IF Pow(b, o) >= m THEN o ELSE CeilLogFrom(b, m, o + 1)

order(w, h, ct) == CeilLogFrom(Base(ct), Max(w, h), 0)

(***************************************************************************)
(* digital_halftoning.py: halftoning(), the pure parts                     *)
(***************************************************************************)
\* Keeps the points below the lower-right corner too.
ClipInclusive(c, w, h) == SelectSeq(c, LAMBDA p : p[1] <= w /\ p[2] <= h)

\* [(x, y) for x, y in curve if x < shape[1] and y < shape[0]]
Clip(c, w, h) == SelectSeq(c, LAMBDA p : p[1] < w /\ p[2] < h)

\* Python's a // b (floor division), b # 0.
FloorDiv(a, b) ==
    IF b > 0 THEN a \div b
    ELSE -(((a + (-b)) - 1) \div (-b))

\* np.array_split(ary, n), n >= 1: n sections, the first Len % n of them one
\* element longer than the others.
ArraySplit(ary, n) ==
    LET each == Len(ary) \div n
        extras == Len(ary) % n
        size(k) == IF k <= extras THEN each + 1 ELSE each
        start(k) == IF k <= extras THEN (k - 1) * (each + 1)
                    ELSE extras * (each + 1) + (k - 1 - extras) * each
    IN  [k \in 1..n |-> SubSeq(ary, start(k) + 1, start(k) + size(k))]

\* Insert p behind every element whose key is <= key(p): one step of a
\* stable ascending sort.
RECURSIVE InsertSorted(_, _, _)
InsertSorted(s, p, img) ==
    IF s = <<>> THEN <<p>>
    ELSE IF img[s[Len(s)]] <= img[p] THEN Append(s, p)
    ELSE Append(InsertSorted(SubSeq(s, 1, Len(s) - 1), p, img), s[Len(s)])

RECURSIVE SortFrom(_, _, _, _)
SortFrom(s, k, acc, img) ==
    IF k > Len(s) THEN acc
    ELSE SortFrom(s, k + 1, InsertSorted(acc, s[k], img), img)

\* sorted(cluster, key=lambda p: image_in[p[1], p[0]]): stable, ascending.
Sorted(c, img) == SortFrom(c, 1, <<>>, img)

\* s without its k-th element.
RemoveAt(s, k) == SubSeq(s, 1, k - 1) \o SubSeq(s, k + 1, Len(s))

\* The index of the first occurrence of e in s.
FirstIndex(s, e) == CHOOSE k \in 1..Len(s) : s[k] = e /\ \A m \in 1..(k - 1) : s[m] # e

\* Every arrangement of the elements of s (each sequence once, also when s
\* repeats a point).
RECURSIVE Arrangements(_)
Arrangements(s) ==
    IF s = <<>> THEN {<<>>}
    ELSE UNION {{<<e>> \o t : t \in Arrangements(RemoveAt(s, FirstIndex(s, e)))} :
                e \in Range(s)}

\* Draws Len(c) points of c with replacement.
ShuffleWithReplacement(c) == [1..Len(c) -> Range(c)]

\* np.random.shuffle(cluster): any permutation of the rows.
Shuffle(c) == Arrangements(c)

\* The cluster as the loop body sees it after the distribution branch.
Reordered(c, img, dist) ==
    CASE dist = "ordered" -> {Sorted(c, img)}
      [] dist = "random" -> Shuffle(c)
      [] dist = "standard" -> {c}

\* intensity_accumulator += image_in[y, x]. The element is a uint8 scalar:
\* under NumPy >= 2 the sum is a uint8 and wraps, under NumPy 1.x it is an
\* int64.
AddIntensity(acc, v, promo) ==
    IF promo = "nep50" THEN (acc + v) % Uint8Modulus ELSE acc + v

\* intensity_accumulator -= 255, same promotion.
SubtractThreshold(acc, promo) ==
    IF promo = "nep50" THEN (acc - Threshold) % Uint8Modulus ELSE acc - Threshold

\* for x, y in cluster: intensity_accumulator += image_in[y, x]
RECURSIVE AccumulateFrom(_, _, _, _, _)
AccumulateFrom(acc, c, k, img, promo) ==
    IF k > Len(c) THEN acc
    ELSE AccumulateFrom(AddIntensity(acc, img[c[k]], promo), c, k + 1, img, promo)

AccumulatePass(acc, c, img, promo) == AccumulateFrom(acc, c, 1, img, promo)

\* Subtracts 255 as long as the accumulator holds it (a while for the if).
RECURSIVE Drain(_, _)
Drain(acc, promo) ==
    IF acc >= Threshold THEN Drain(SubtractThreshold(acc, promo), promo) ELSE acc

EmitPointWhile(st, p, promo) ==
    IF st.acc >= Threshold
    THEN [acc |-> Drain(st.acc, promo),
          halftone |-> [st.halftone EXCEPT ![p] = Ink],
          writes |-> Append(st.writes, Ink),
          written |-> [st.written EXCEPT ![p] = @ + 1]]
    ELSE [acc |-> st.acc,
          halftone |-> [st.halftone EXCEPT ![p] = Paper],
          writes |-> Append(st.writes, Paper),
          written |-> [st.written EXCEPT ![p] = @ + 1]]

\* The body of the emit loop for one point:
\* if intensity_accumulator >= 255: halftone[y, x] = 255; accumulator -= 255
\* else: halftone[y, x] = 0
EmitPoint(st, p, promo) ==
    IF st.acc >= Threshold
    THEN [acc |-> SubtractThreshold(st.acc, promo),
          halftone |-> [st.halftone EXCEPT ![p] = Ink],
          writes |-> Append(st.writes, Ink),
          written |-> [st.written EXCEPT ![p] = @ + 1]]
    ELSE [acc |-> st.acc,
          halftone |-> [st.halftone EXCEPT ![p] = Paper],
          writes |-> Append(st.writes, Paper),
          written |-> [st.written EXCEPT ![p] = @ + 1]]

\* for x, y in cluster: (the emit loop)
RECURSIVE EmitFrom(_, _, _, _)
EmitFrom(st, c, k, promo) ==
    IF k > Len(c) THEN st
    ELSE EmitFrom(EmitPoint(st, c[k], promo), c, k + 1, promo)

EmitPass(acc, ht, wr, c, promo) ==
    EmitFrom([acc |-> acc, halftone |-> ht, writes |-> <<>>, written |-> wr],
             c, 1, promo)

(***************************************************************************)
(* digital_halftoning.py: halftoning(), statement by statement             *)
(***************************************************************************)
Zeros(w, h) == [p \in Pixels(w, h) |-> 0]

\* Image contents of the wide runs: one intensity everywhere, or a ramp.
Ramp(w, h) == [p \in Pixels(w, h) |-> (p[1] * 67 + p[2] * 101 + 50) % Uint8Modulus]

WideImages(w, h) == {[p \in Pixels(w, h) |-> v] : v \in Intensities} \cup {Ramp(w, h)}

\* The locals before the first statement that assigns them.
Fresh(w, h) ==
    /\ halftone = Zeros(w, h)
    /\ curve = <<>>
    /\ clusters = <<>>
    /\ ci = 0
    /\ cluster = <<>>
    /\ intensity_accumulator = 0
    /\ raised = "none"
    /\ accumulated = 0
    /\ writes = <<>>
    /\ written = Zeros(w, h)

CurveIdle ==
    /\ sfc_pc = "idle"
    /\ sfc_type = "none"
    /\ sfc_order = 0
    /\ sfc_i = 0
    /\ sfc = <<>>

\* Small images with every content; every argument, valid or not.
InitSmall ==
    /\ width \in 1..MaxWidth
    /\ height \in 1..MaxHeight
    /\ width * height <= MaxPixels
    /\ image_in \in [Pixels(width, height) -> Intensities]
    /\ curve_type \in CurveTypes \cup {"koch"}
    /\ cluster_size \in ClusterSizes
    /\ distribution \in Distributions \cup {"dither"}
    /\ promotion \in {"legacy", "nep50"}
    /\ pc = "curve"
    /\ Fresh(width, height)
    /\ CurveIdle

\* Wider images with a few contents, along the Hilbert curve.
InitWide ==
    /\ width \in 1..MaxWideWidth
    /\ height \in 1..MaxWideHeight
    /\ image_in \in WideImages(width, height)
    /\ curve_type = "hilbert"
    /\ cluster_size \in 1..MaxWideClusterSize
    /\ distribution \in {"standard", "ordered"}
    /\ promotion \in {"legacy", "nep50"}
    /\ pc = "curve"
    /\ Fresh(width, height)
    /\ CurveIdle

Init == InitSmall \/ InitWide

\* order(): raise ValueError('invalid curve type, ...')
RaiseInvalidCurveType ==
    /\ pc = "curve"
    /\ curve_type \notin CurveTypes
    /\ pc' = "raised"
    /\ raised' = "ValueError: invalid curve type"
    /\ UNCHANGED <<image_in, width, height, curve_type, cluster_size,
                   distribution, promotion, halftone, curve, clusters, ci,
                   cluster, intensity_accumulator, accumulated, writes,
                   written, cvars>>

\* curve = space_filling_curve(curve_type, order(halftone, curve_type))
\* curve = [(x, y) for x, y in curve if ...]
BuildCurve ==
    /\ pc = "curve"
    /\ curve_type \in CurveTypes
    /\ curve' = Clip(space_filling_curve(curve_type,
                                         order(width, height, curve_type)),
                     width, height)
    /\ pc' = "split"
    /\ UNCHANGED <<image_in, width, height, curve_type, cluster_size,
                   distribution, promotion, halftone, clusters, ci, cluster,
                   intensity_accumulator, raised, accumulated, writes,
                   written, cvars>>

\* n_clusters = len(curve) // cluster_size, cluster_size = 0
RaiseZeroDivision ==
    /\ pc = "split"
    /\ cluster_size = 0
    /\ pc' = "raised"
    /\ raised' = "ZeroDivisionError: integer division or modulo by zero"
    /\ UNCHANGED <<image_in, width, height, curve_type, cluster_size,
                   distribution, promotion, halftone, curve, clusters, ci,
                   cluster, intensity_accumulator, accumulated, writes,
                   written, cvars>>

\* np.array_split(curve, n_clusters), n_clusters <= 0
RaiseNoSections ==
    /\ pc = "split"
    /\ cluster_size # 0
    /\ FloorDiv(Len(curve), cluster_size) <= 0
    /\ pc' = "raised"
    /\ raised' = "ValueError: number sections must be larger than 0."
    /\ UNCHANGED <<image_in, width, height, curve_type, cluster_size,
                   distribution, promotion, halftone, curve, clusters, ci,
                   cluster, intensity_accumulator, accumulated, writes,
                   written, cvars>>

\* n_clusters = len(curve) // cluster_size
\* clusters = np.array_split(curve, n_clusters); intensity_accumulator = 0
SplitClusters ==
    /\ pc = "split"
    /\ cluster_size # 0
    /\ FloorDiv(Len(curve), cluster_size) > 0
    /\ clusters' = ArraySplit(curve, FloorDiv(Len(curve), cluster_size))
    /\ intensity_accumulator' = 0
    /\ ci' = 1
    /\ pc' = "loop"
    /\ UNCHANGED <<image_in, width, height, curve_type, cluster_size,
                   distribution, promotion, halftone, curve, cluster, raised,
                   accumulated, writes, written, cvars>>

\* for cluster in clusters: the distribution branch, no distribution matches
RaiseInvalidDistribution ==
    /\ pc = "loop"
    /\ ci <= Len(clusters)
    /\ distribution \notin Distributions
    /\ cluster' = clusters[ci]
    /\ pc' = "raised"
    /\ raised' = "ValueError: invalid distribution type"
    /\ UNCHANGED <<image_in, width, height, curve_type, cluster_size,
                   distribution, promotion, halftone, curve, clusters, ci,
                   intensity_accumulator, accumulated, writes, written,
                   cvars>>

\* for cluster in clusters: the distribution branch
Reorder ==
    /\ pc = "loop"
    /\ ci <= Len(clusters)
    /\ distribution \in Distributions
    /\ cluster' \in Reordered(clusters[ci], image_in, distribution)
    /\ writes' = <<>>
    /\ pc' = "accumulate"
    /\ UNCHANGED <<image_in, width, height, curve_type, cluster_size,
                   distribution, promotion, halftone, curve, clusters, ci,
                   intensity_accumulator, raised, accumulated, written,
                   cvars>>

\* The first inner loop over the cluster.
Accumulate ==
    /\ pc = "accumulate"
    /\ intensity_accumulator' =
           AccumulatePass(intensity_accumulator, cluster, image_in, promotion)
    /\ accumulated' = intensity_accumulator'
    /\ pc' = "emit"
    /\ UNCHANGED <<image_in, width, height, curve_type, cluster_size,
                   distribution, promotion, halftone, curve, clusters, ci,
                   cluster, raised, writes, written, cvars>>

\* The second inner loop over the cluster, then on to the next cluster.
Emit ==
    /\ pc = "emit"
    /\ LET st == EmitPass(intensity_accumulator, halftone, written, cluster,
                          promotion)
       IN  /\ intensity_accumulator' = st.acc
           /\ halftone' = st.halftone
           /\ writes' = st.writes
           /\ written' = st.written
    /\ ci' = ci + 1
    /\ pc' = "loop"
    /\ UNCHANGED <<image_in, width, height, curve_type, cluster_size,
                   distribution, promotion, curve, clusters, cluster, raised,
                   accumulated, cvars>>

\* return halftone
Return ==
    /\ pc = "loop"
    /\ ci > Len(clusters)
    /\ pc' = "returned"
    /\ UNCHANGED <<image_in, width, height, curve_type, cluster_size,
                   distribution, promotion, halftone, curve, clusters, ci,
                   cluster, intensity_accumulator, raised, accumulated,
                   writes, written, cvars>>

Next ==
    \/ RaiseInvalidCurveType
    \/ BuildCurve
    \/ RaiseZeroDivision
    \/ RaiseNoSections
    \/ SplitClusters
    \/ RaiseInvalidDistribution
    \/ Reorder
    \/ Accumulate
    \/ Emit
    \/ Return

Spec == Init /\ [][Next]_vars

(***************************************************************************)
(* space_filling_curves.py: space_filling_curve(), element by element      *)
(***************************************************************************)
HalftoningIdle ==
    /\ image_in = <<>>
    /\ width = 0
    /\ height = 0
    /\ curve_type = "none"
    /\ cluster_size = 0
    /\ distribution = "none"
    /\ promotion = "none"
    /\ pc = "idle"
    /\ Fresh(0, 0)

CurveInit ==
    /\ sfc_type \in CurveTypes \cup {"koch"}
    /\ sfc_order \in 0..MaxOrder
    /\ sfc_type \in {"peano", "sierpinski"}
           => Pow(Base(sfc_type), 2 * sfc_order) <= MaxStubPoints
    /\ sfc_pc = "generate"
    /\ sfc_i = 0
    /\ sfc = <<>>
    /\ HalftoningIdle

\* else: raise ValueError('invalid curve type, ...')
CurveRaise ==
    /\ sfc_pc = "generate"
    /\ sfc_type \notin CurveTypes
    /\ sfc_pc' = "raised"
    /\ UNCHANGED <<sfc_type, sfc_order, sfc_i, sfc, hvars>>

\* One element of the list comprehension [f(i, order) for i in range(n * n)]
CurveAppend ==
    /\ sfc_pc = "generate"
    /\ sfc_type \in CurveTypes
    /\ sfc_i < Pow(Base(sfc_type), 2 * sfc_order)
    /\ sfc' = Append(sfc, CurvePoint(sfc_type, sfc_i, sfc_order))
    /\ sfc_i' = sfc_i + 1
    /\ UNCHANGED <<sfc_pc, sfc_type, sfc_order, hvars>>

\* return space_filling_curve
CurveReturn ==
    /\ sfc_pc = "generate"
    /\ sfc_type \in CurveTypes
    /\ sfc_i = Pow(Base(sfc_type), 2 * sfc_order)
    /\ sfc_pc' = "returned"
    /\ UNCHANGED <<sfc_type, sfc_order, sfc_i, sfc, hvars>>

CurveNext == CurveRaise \/ CurveAppend \/ CurveReturn

SpecCurve == CurveInit /\ [][CurveNext]_vars

(***************************************************************************)
(* Helpers of the properties.                                              *)
(***************************************************************************)
RECURSIVE SumOver(_, _)
SumOver(S, img) ==
    IF S = {} THEN 0
    ELSE LET p == CHOOSE q \in S : TRUE
         IN  img[p] + SumOver(S \ {p}, img)

RECURSIVE SumAlong(_, _)
SumAlong(s, img) ==
    IF s = <<>> THEN 0 ELSE img[s[1]] + SumAlong(Tail(s), img)

RECURSIVE Concat(_, _)
Concat(ss, j) == IF j = 0 THEN <<>> ELSE Concat(ss, j - 1) \o ss[j]

InkCount(ht) == Cardinality({p \in DOMAIN ht : ht[p] = Ink})

InkWrites(ws) == Cardinality({k \in 1..Len(ws) : ws[k] = Ink})

Occurrences(s, e) == Cardinality({k \in 1..Len(s) : s[k] = e})

SameBag(a, b) ==
    /\ Len(a) = Len(b)
    /\ \A e \in Range(a) \cup Range(b) : Occurrences(a, e) = Occurrences(b, e)

Manhattan(p, q) ==
    (IF p[1] >= q[1] THEN p[1] - q[1] ELSE q[1] - p[1])
    + (IF p[2] >= q[2] THEN p[2] - q[2] ELSE q[2] - p[2])

CeilDiv(a, b) == (a + b - 1) \div b

Split == pc \in {"loop", "accumulate", "emit", "returned"}

ValidConfiguration ==
    /\ curve_type \in CurveTypes
    /\ cluster_size >= 1
    /\ distribution \in Distributions

\* The run over the first j clusters with every cluster in curve order.
RECURSIVE StandardRun(_)
StandardRun(j) ==
    IF j = 0
    THEN [acc |-> 0, halftone |-> Zeros(width, height), writes |-> <<>>,
          written |-> Zeros(width, height)]
    ELSE LET before == StandardRun(j - 1)
         IN  EmitPass(AccumulatePass(before.acc, clusters[j], image_in, promotion),
                      before.halftone, before.written, clusters[j], promotion)

(***************************************************************************)
(* C1. Accumulator conservation: when halftoning() returns, the number of  *)
(* output pixels equal to 255 is floor(S / 255), S the sum of the source   *)
(* intensities over the pixels the clipped curve visits.                   *)
(***************************************************************************)
C1_AccumulatorConservation ==
    pc = "returned" =>
        InkCount(halftone) = SumOver(Range(curve), image_in) \div Threshold

(***************************************************************************)
(* C2. Clustering: the clipped curve of length n is split into ceil(n / k) *)
(* contiguous groups, each of exactly k points except possibly the last,   *)
(* which may be shorter.                                                   *)
(***************************************************************************)
C2_ClustersOfClusterSize ==
    (Split /\ cluster_size >= 1) =>
        /\ Len(clusters) = CeilDiv(Len(curve), cluster_size)
        /\ Concat(clusters, Len(clusters)) = curve
        /\ \A j \in 1..Len(clusters) :
               IF j < Len(clusters)
               THEN Len(clusters[j]) = cluster_size
               ELSE Len(clusters[j]) \in 1..cluster_size

(***************************************************************************)
(* C3. For each curve family and every order in 1..6 the returned curve    *)
(* has base^(2*order) points and visits every cell of the                  *)
(* base^order x base^order grid exactly once.                              *)
(***************************************************************************)
C3_CurveIsBijection ==
    (sfc_pc = "returned" /\ sfc_order \in 1..6) =>
        LET n == Pow(Base(sfc_type), sfc_order)
        IN  /\ Len(sfc) = n * n
            /\ \A cell \in Pixels(n, n) : Occurrences(sfc, cell) = 1

(***************************************************************************)
(* C4. Hilbert locality: for every order >= 1, the points at consecutive   *)
(* indices of the Hilbert curve are at Manhattan distance 1.               *)
(***************************************************************************)
C4_HilbertLocality ==
    (sfc_type = "hilbert" /\ sfc_order >= 1) =>
        \A k \in 1..(Len(sfc) - 1) : Manhattan(sfc[k], sfc[k + 1]) = 1

C4_Witness ==
    /\ sfc_type = "hilbert"
    /\ sfc_order = 3
    /\ sfc_pc = "returned"
    /\ Len(sfc) = 64
    /\ sfc[64] = <<7, 0>>

(***************************************************************************)
(* C5. With a non-empty image, a supported curve family, cluster_size >= 1 *)
(* and a supported distribution, halftoning() never ends in an error, also *)
(* when cluster_size exceeds the number of points of the clipped curve.    *)
(***************************************************************************)
C5_ValidConfigurationCompletes ==
    ValidConfiguration => pc # "raised"

(***************************************************************************)
(* C6. With cluster_size <= 0 halftoning() ends in the InvalidClusterSize  *)
(* validation error, and no output pixel has been written.                 *)
(***************************************************************************)
C6_NonPositiveClusterSizeRejected ==
    (curve_type \in CurveTypes /\ cluster_size <= 0
        /\ pc \in {"raised", "returned"}) =>
        /\ pc = "raised"
        /\ raised = "InvalidClusterSize"
        /\ \A p \in Pixels(width, height) : written[p] = 0

(***************************************************************************)
(* C7. Carry-over: the accumulator with which cluster j starts its         *)
(* accumulate pass is in [0, 255) and equals the sum of the source         *)
(* intensities of all points of the clusters before j, modulo 255.         *)
(***************************************************************************)
C7_CarryIsPrefixSumMod255 ==
    pc = "accumulate" =>
        /\ intensity_accumulator \in 0..(Threshold - 1)
        /\ intensity_accumulator =
               SumAlong(Concat(clusters, ci - 1), image_in) % Threshold

(***************************************************************************)
(* C8. The distribution changes which pixels get ink, not how much: the    *)
(* reordered cluster holds the points of its own cluster and no others,    *)
(* and after every cluster the accumulator and the number of ink pixels    *)
(* the cluster emitted, and at the end the total ink, are those of the     *)
(* run that keeps every cluster in curve order.                            *)
(***************************************************************************)
C8_DistributionKeepsInk ==
    /\ pc \in {"accumulate", "emit"} => SameBag(cluster, clusters[ci])
    /\ (pc = "loop" /\ ci > 1) =>
           /\ SameBag(cluster, clusters[ci - 1])
           /\ intensity_accumulator = StandardRun(ci - 1).acc
           /\ InkWrites(writes) = InkWrites(StandardRun(ci - 1).writes)
    /\ pc = "returned" =>
           InkCount(halftone) = InkCount(StandardRun(Len(clusters)).halftone)

C8_Witness ==
    /\ pc = "returned"
    /\ distribution = "random"
    /\ Len(clusters) >= 2
    /\ InkCount(halftone) >= 1
    /\ halftone # StandardRun(Len(clusters)).halftone

(***************************************************************************)
(* C9. Emit pass: with A the accumulator after the accumulate pass of a    *)
(* cluster, the first floor(A / 255) points of the reordered cluster get   *)
(* 255 and the later ones 0, the accumulator ends at A mod 255 after one   *)
(* subtraction per ink point, and floor(A / 255) is at most the number of  *)
(* points of the cluster.                                                  *)
(***************************************************************************)
C9_EmitPass ==
    (pc = "loop" /\ ci > 1) =>
        LET q == accumulated \div Threshold
        IN  /\ q <= Len(cluster)
            /\ Len(writes) = Len(cluster)
            /\ \A k \in 1..Len(writes) :
                   writes[k] = IF k <= q THEN Ink ELSE Paper
            /\ intensity_accumulator = accumulated % Threshold
            /\ accumulated - intensity_accumulator = Threshold * InkWrites(writes)
            /\ curve_type = "hilbert" =>
                   \A k \in 1..Len(cluster) : halftone[cluster[k]] = writes[k]

C9_Witness ==
    /\ pc = "loop"
    /\ ci > 1
    /\ Len(cluster) >= 3
    /\ accumulated >= 2 * Threshold
    /\ accumulated % Threshold # 0
    /\ writes[Len(writes)] = Paper

(***************************************************************************)
(* C10. Hilbert coverage: the clipped Hilbert curve holds every pixel of   *)
(* the image exactly once, so its length is width * height, and a run that *)
(* returns has written every output pixel exactly once.                    *)
(***************************************************************************)
C10_HilbertCoversImage ==
    curve_type = "hilbert" =>
        /\ pc # "curve" =>
               /\ Len(curve) = width * height
               /\ \A p \in Pixels(width, height) : Occurrences(curve, p) = 1
        /\ pc = "returned" =>
               \A p \in Pixels(width, height) : written[p] = 1

C10_Witness ==
    /\ curve_type = "hilbert"
    /\ pc = "returned"
    /\ width = 3
    /\ height = 2
    /\ Len(clusters) >= 2

====
